---- MODULE Spec2Model ----
(***************************************************************************)
(* Model of src/tuya/tuya_monitor.py: the monitoring loop main(), the      *)
(* confirmation helper confirm_offline_status(), ping_confirm(), and the   *)
(* TuyaClient calls ensure_token / refresh_token / get_device_online /     *)
(* set_switch, seen through their outcomes, and telegram_main.             *)
(* Spec is the monitoring loop; SpecSwitch, SpecConfirm and SpecToken run  *)
(* set_switch, confirm_offline_status and ensure_token on their own.       *)
(*                                                                         *)
(* Python values True / False / None are the strings "True", "False",      *)
(* "None".  A pending exception is named by its Python class.              *)
(* Time is in seconds; time.time() is the variable clock, which advances   *)
(* only while the loop sleeps (work inside a cycle takes no model time).   *)
(***************************************************************************)
EXTENDS Integers, Sequences, FiniteSets, TLC

\* ------------------------------------------------------------ constants
PING_INTERVAL == 10
API_OFFLINE_INTERVAL == 300
API_RETRY_DELAY == 30
TOKEN_BUFFER == 120
CONFIRM_ROUNDS == 3
TUYA_DEVICE_ID == 0

\* ------------------------------------------------------------ bounds
NumDevices == 2
MaxTime == 400

DISABLE_DEVICE_IDS == [i \in 1..NumDevices |-> i]

\* Time that passes from one cycle's start to the next: the sleep of
\* PING_INTERVAL plus the work of the cycle (confirmation rounds, HTTP
\* calls, the pauses of the restore loop).
Elapsed == {PING_INTERVAL, API_RETRY_DELAY, API_OFFLINE_INTERVAL + PING_INTERVAL}

\* expire_time values the token endpoint may return (the documented two
\* hours: within MaxTime the token of the main loop does not expire).
TokenTTLs == {7200}

Tri == {"True", "False", "None"}
PyBool == {"True", "False"}

\* Python truthiness and `not`.
Truthy(x) == x = "True"
PyNot(x) == IF x = "True" THEN "False" ELSE "True"

\* Exceptions the loop boundary catches (except clause of main).
LoopCaught == {"RequestException", "RuntimeError"}

\* ------------------------------------------------------------ environment
RefreshOutcomes ==
    [kind : {"ok"}, ttl : TokenTTLs]
    \cup [kind : {"RuntimeError", "RequestException"}, ttl : {0}]

StatusOutcomes == {"True", "False", "RuntimeError", "RequestException"}

\* What the POST of set_switch can end with: a transport error, or a JSON
\* envelope with its success field and the words of the rest of its text.
Words == {"already", "ALREADY", "device is offline", "Offline",
          "permission deny", "sign invalid"}
MaxWords == 2
Texts == UNION {[1..n -> Words] : n \in 0..MaxWords}
SwitchResponses ==
    [kind : {"json"}, success : BOOLEAN, text : Texts]
    \cup [kind : {"RequestException"}, success : {FALSE}, text : {<<>>}]

\* The outcomes the monitoring loop is run against: accepted, benign
\* no-op, rejected, transport error.
SwitchOutcomes ==
    {[kind |-> "json", success |-> TRUE, text |-> <<>>],
     [kind |-> "json", success |-> FALSE, text |-> <<"already">>],
     [kind |-> "json", success |-> FALSE, text |-> <<"permission deny">>],
     [kind |-> "RequestException", success |-> FALSE, text |-> <<>>]}

StatusCalls == [refresh : RefreshOutcomes, http : StatusOutcomes]
SwitchCalls == [refresh : RefreshOutcomes, http : SwitchOutcomes]
PingRounds == [1..CONFIRM_ROUNDS -> Tri]

\* The environment answers only the calls the code makes: a token that is
\* still valid is not refreshed, so the refresh outcome is then irrelevant.
NoRefresh == [kind |-> "ok", ttl |-> 0]
NoPings == [i \in 1..CONFIRM_ROUNDS |-> "None"]

\* ------------------------------------------------------------ TuyaClient
\* notified: notify_error was called (line 333: non-success envelope only).
refresh_token(c, t, r) ==
    IF r.kind = "ok"
    THEN [client |-> [token |-> TRUE, token_expire |-> t + r.ttl - TOKEN_BUFFER],
          exc |-> "None", refreshes |-> 1, notified |-> FALSE]
    ELSE [client |-> c, exc |-> r.kind, refreshes |-> 1,
          notified |-> (r.kind = "RuntimeError")]

TokenValid(c, t) == c.token /\ t < c.token_expire

RefreshFor(c, t) == IF TokenValid(c, t) THEN {NoRefresh} ELSE RefreshOutcomes
StatusCallsFor(c, t) == [refresh : RefreshFor(c, t), http : StatusOutcomes]
SwitchCallsFor(c, t) == [refresh : RefreshFor(c, t), http : SwitchOutcomes]

\* Fault seeded in ensure_token: the validity test is dropped.
ensure_token_AlwaysRefresh(c, t, r) == refresh_token(c, t, r)

ensure_token(c, t, r) ==
    IF TokenValid(c, t)
    THEN [client |-> c, exc |-> "None", refreshes |-> 0, notified |-> FALSE]
    ELSE refresh_token(c, t, r)

get_device_online(c, t, a) ==
    LET e == ensure_token(c, t, a.refresh) IN
    IF e.exc # "None"
    THEN [client |-> e.client, exc |-> e.exc, value |-> "None",
          refreshes |-> e.refreshes]
    ELSE IF a.http \in PyBool
    THEN [client |-> e.client, exc |-> "None", value |-> a.http,
          refreshes |-> e.refreshes]
    ELSE [client |-> e.client, exc |-> a.http, value |-> "None",
          refreshes |-> e.refreshes]

\* str.lower() on the words of an envelope.
Lower(w) ==
    CASE w = "ALREADY" -> "already"
      [] w = "Offline" -> "offline"
      [] OTHER -> w

\* Python `k in w` for the two keywords of set_switch.
HasSubstring(w, k) ==
    CASE k = "already" -> w = "already"
      [] k = "offline" -> w \in {"offline", "device is offline"}
      [] OTHER -> FALSE

\* set_switch, lines 457-458: msg = str(data).lower(), then the two tests.
BenignText(text) ==
    \E i \in 1..Len(text) :
        HasSubstring(Lower(text[i]), "already")
        \/ HasSubstring(Lower(text[i]), "offline")

\* Fault seeded in set_switch: the envelope text is matched without
\* lower().
set_switch_CaseSensitive(c, t, a) ==
    LET e == ensure_token(c, t, a.refresh) IN
    IF e.exc # "None"
    THEN [client |-> e.client, exc |-> e.exc, refreshes |-> e.refreshes,
          notified |-> e.notified]
    ELSE IF a.http.kind = "RequestException"
    THEN [client |-> e.client, exc |-> "RequestException",
          refreshes |-> e.refreshes, notified |-> TRUE]
    ELSE IF a.http.success
    THEN [client |-> e.client, exc |-> "None", refreshes |-> e.refreshes,
          notified |-> FALSE]
    ELSE IF \E i \in 1..Len(a.http.text) :
               HasSubstring(a.http.text[i], "already")
               \/ HasSubstring(a.http.text[i], "offline")
    THEN [client |-> e.client, exc |-> "None", refreshes |-> e.refreshes,
          notified |-> FALSE]
    ELSE [client |-> e.client, exc |-> "RuntimeError",
          refreshes |-> e.refreshes, notified |-> TRUE]

\* set_switch: ensure_token, the POST (a transport error is reported and
\* re-raised), then the envelope.  notified: notify_error was called.
\* A body that is not JSON (lines 446-454) is reported and raised as
\* RuntimeError, like a rejected command.
set_switch(c, t, a) ==
    LET e == ensure_token(c, t, a.refresh) IN
    IF e.exc # "None"
    THEN [client |-> e.client, exc |-> e.exc, refreshes |-> e.refreshes,
          notified |-> e.notified]
    ELSE IF a.http.kind = "RequestException"
    THEN [client |-> e.client, exc |-> "RequestException",
          refreshes |-> e.refreshes, notified |-> TRUE]
    ELSE IF a.http.success
    THEN [client |-> e.client, exc |-> "None", refreshes |-> e.refreshes,
          notified |-> FALSE]
    ELSE IF BenignText(a.http.text)
    THEN [client |-> e.client, exc |-> "None", refreshes |-> e.refreshes,
          notified |-> FALSE]
    ELSE [client |-> e.client, exc |-> "RuntimeError",
          refreshes |-> e.refreshes, notified |-> TRUE]

\* ------------------------------------------------------------ telegram
\* What a requests.post to the Telegram API can end with.
PostOutcomes == {"ok", "RequestException"}

\* Fault seeded in telegram_main: the post to the main channel is not
\* guarded by try / except.
telegram_main_Unguarded(main_post, debug_post) ==
    [exc |-> IF main_post = "ok" THEN "None" ELSE main_post,
     failed |-> (main_post # "ok" \/ debug_post # "ok")]

\* telegram_main, lines 56-84: the post to the main channel and its
\* duplicate to the debug channel, each inside try / except
\* requests.RequestException: pass.  failed: a post did not get through.
telegram_main(main_post, debug_post) ==
    [exc |-> "None",
     failed |-> (main_post # "ok" \/ debug_post # "ok")]

\* ------------------------------------------------------------ ping
\* ping_confirm builds " ".join(cmd) before running ping: with host None
\* the join raises TypeError, which its except clause does not catch.
ping_confirm(host, out) ==
    IF host = "None"
    THEN [exc |-> "TypeError", value |-> "None"]
    ELSE [exc |-> "None", value |-> out]

\* Index of the first round that returns True, 0 when none does.
FirstReply(pings) ==
    IF \E i \in 1..CONFIRM_ROUNDS : pings[i] = "True"
    THEN CHOOSE i \in 1..CONFIRM_ROUNDS :
            /\ pings[i] = "True"
            /\ \A j \in 1..(i - 1) : pings[j] # "True"
    ELSE 0

\* What a cloud status lookup that ended with g told the caller.
LookupResult(g) == IF g.exc = "None" THEN g.value ELSE "error"

\* Fault seeded in confirm_offline_status: a failed cloud lookup counts as
\* offline instead of keeping the caller's state.
confirm_offline_status_ErrorIsOffline(c, t, host, last_online, pings, a) ==
    IF ping_confirm(host, pings[1]).exc # "None"
    THEN [client |-> c, exc |-> ping_confirm(host, pings[1]).exc,
          value |-> "None", rounds |-> 1, replied |-> FALSE,
          lookup |-> "none"]
    ELSE IF FirstReply(pings) # 0
    THEN [client |-> c, exc |-> "None", value |-> "True",
          rounds |-> FirstReply(pings), replied |-> TRUE, lookup |-> "none"]
    ELSE LET g == get_device_online(c, t, a) IN
         [client |-> g.client, exc |-> "None",
          value |-> IF g.exc = "None" THEN g.value ELSE "False",
          rounds |-> CONFIRM_ROUNDS, replied |-> FALSE,
          lookup |-> LookupResult(g)]

\* Fault seeded in confirm_offline_status: the loop has no early return,
\* all rounds are run before a reply is looked at.
confirm_offline_status_NoEarlyExit(c, t, host, last_online, pings, a) ==
    IF ping_confirm(host, pings[1]).exc # "None"
    THEN [client |-> c, exc |-> ping_confirm(host, pings[1]).exc,
          value |-> "None", rounds |-> 1, replied |-> FALSE,
          lookup |-> "none"]
    ELSE IF FirstReply(pings) # 0
    THEN [client |-> c, exc |-> "None", value |-> "True",
          rounds |-> CONFIRM_ROUNDS, replied |-> TRUE, lookup |-> "none"]
    ELSE LET g == get_device_online(c, t, a) IN
         [client |-> g.client, exc |-> "None",
          value |-> IF g.exc = "None" THEN g.value ELSE last_online,
          rounds |-> CONFIRM_ROUNDS, replied |-> FALSE,
          lookup |-> LookupResult(g)]

\* Fault seeded in confirm_offline_status: a failed cloud lookup returns
\* None instead of the caller's state.
confirm_offline_status_ErrorIsUnknown(c, t, host, last_online, pings, a) ==
    IF ping_confirm(host, pings[1]).exc # "None"
    THEN [client |-> c, exc |-> ping_confirm(host, pings[1]).exc,
          value |-> "None", rounds |-> 1, replied |-> FALSE,
          lookup |-> "none"]
    ELSE IF FirstReply(pings) # 0
    THEN [client |-> c, exc |-> "None", value |-> "True",
          rounds |-> FirstReply(pings), replied |-> TRUE, lookup |-> "none"]
    ELSE LET g == get_device_online(c, t, a) IN
         [client |-> g.client, exc |-> "None",
          value |-> IF g.exc = "None" THEN g.value ELSE "None",
          rounds |-> CONFIRM_ROUNDS, replied |-> FALSE,
          lookup |-> LookupResult(g)]

\* Fault seeded in confirm_offline_status: three rounds without a reply
\* are reported offline, the cloud is not asked.
confirm_offline_status_NoCloudFallback(c, t, host, last_online, pings, a) ==
    IF ping_confirm(host, pings[1]).exc # "None"
    THEN [client |-> c, exc |-> ping_confirm(host, pings[1]).exc,
          value |-> "None", rounds |-> 1, replied |-> FALSE,
          lookup |-> "none"]
    ELSE IF FirstReply(pings) # 0
    THEN [client |-> c, exc |-> "None", value |-> "True",
          rounds |-> FirstReply(pings), replied |-> TRUE, lookup |-> "none"]
    ELSE [client |-> c, exc |-> "None", value |-> "False",
          rounds |-> CONFIRM_ROUNDS, replied |-> FALSE, lookup |-> "none"]

confirm_offline_status(c, t, host, last_online, pings, a) ==
    IF ping_confirm(host, pings[1]).exc # "None"
    THEN [client |-> c, exc |-> ping_confirm(host, pings[1]).exc,
          value |-> "None", rounds |-> 1, replied |-> FALSE,
          lookup |-> "none"]
    ELSE IF FirstReply(pings) # 0
    THEN [client |-> c, exc |-> "None", value |-> "True",
          rounds |-> FirstReply(pings), replied |-> TRUE, lookup |-> "none"]
    ELSE LET g == get_device_online(c, t, a) IN
         [client |-> g.client, exc |-> "None",
          value |-> IF g.exc = "None" THEN g.value ELSE last_online,
          rounds |-> CONFIRM_ROUNDS, replied |-> FALSE,
          lookup |-> LookupResult(g)]

\* ------------------------------------------------------------ state
VARIABLES
    PING_TARGET_HOST,     \* "host" or "None" (environment, fixed for a run)
    client,               \* TuyaClient: [token, token_expire]
    last_state,           \* main: last_state
    outage_handled,       \* main: outage_handled
    restore_handled,      \* main: restore_handled
    last_api_check,       \* main: last_api_check
    last_api_retry_time,  \* main: last_api_retry_time, <<>> is None, <<t>> is t
    clock,                \* time.time()
    now,                  \* main: now, sampled at the top of a cycle
    online,               \* main: online, the verdict input of the cycle
    ping_ok,              \* main: ping_ok ("None" also when ping is disabled)
    pc,                   \* position of main
    exc,                  \* exception in flight
    dev,                  \* index of the for loops over DISABLE_DEVICE_IDS
    prev_state,           \* history: last_state at the top of the cycle
    confirm_rounds,       \* history: ping_confirm calls made in this cycle
    confirm_replied,      \* history: a ping_confirm of this cycle got a reply
    last_lookup,          \* history: outcome of the cycle's last cloud lookup
    safety,               \* history: the safety-net lookup of this cycle
    effects,              \* history: alerts, switch commands, pauses of this cycle
    failed,               \* history: exception classes set_switch raised this cycle
    actuations,           \* history: Actuator invocations since last_state changed
    seed_state,           \* history: the verdict that seeded last_state
    input_differed,       \* history: a compared input differed from seed_state
    acted,                \* history: an alert or switch command was ever issued
    alert_failed,         \* history: a post of this cycle's alert failed
    call,                 \* a call studied on its own: operation and arguments
    result                \* what that call returned

vars == <<PING_TARGET_HOST, client, last_state, outage_handled, restore_handled,
          last_api_check, last_api_retry_time, clock, now, online, ping_ok,
          pc, exc, dev, prev_state, confirm_rounds, confirm_replied,
          last_lookup, safety, effects, failed,
          actuations,
          seed_state, input_differed, acted, alert_failed,
          call, result>>

unit == <<call, result>>
config == <<PING_TARGET_HOST, unit>>
flags == <<outage_handled, restore_handled>>
sched == <<last_api_check, last_api_retry_time>>
hist == <<actuations, seed_state, input_differed, acted>>
detect == <<confirm_rounds, confirm_replied, last_lookup, safety>>

Cap(n) == IF n > 2 THEN 2 ELSE n

Alert(v) == [op |-> "alert", dev |-> TUYA_DEVICE_ID, value |-> v]
Switch(d, v) == [op |-> "set_switch", dev |-> d, value |-> v]
\* time.sleep(15) after the attempt on device d (main, line 680).
Pause(d) == [op |-> "sleep", dev |-> d, value |-> "None"]

\* The exception classes in s after a call that ended with e.
Raised(s, e) == IF e = "None" THEN s ELSE s \cup {e}

\* No call is studied on its own while the loop runs.
NoCall == [op |-> "none"]

\* main, lines 474-485, and the history variables: nothing has run yet.
Fresh ==
    /\ client = [token |-> FALSE, token_expire |-> 0]
    /\ last_state = "None"
    /\ outage_handled = "False"
    /\ restore_handled = "False"
    /\ last_api_check = 0
    /\ last_api_retry_time = <<>>
    /\ clock = 0
    /\ now = 0
    /\ online = "None"
    /\ ping_ok = "None"
    /\ exc = "None"
    /\ dev = 1
    /\ prev_state = "None"
    /\ confirm_rounds = 0
    /\ confirm_replied = FALSE
    /\ last_lookup = "none"
    /\ safety = "skipped"
    /\ effects = <<>>
    /\ failed = {}
    /\ actuations = 0
    /\ seed_state = "None"
    /\ input_differed = FALSE
    /\ acted = FALSE
    /\ alert_failed = FALSE

Init ==
    /\ PING_TARGET_HOST \in {"host", "None"}
    /\ pc = "start"
    /\ call = NoCall
    /\ result = NoCall
    /\ Fresh

\* main, lines 476-485: client.ensure_token() before the loop; an error
\* here is outside the try of the loop and ends the process.
Startup ==
    /\ pc = "start"
    /\ \E r \in RefreshOutcomes :
        LET e == ensure_token(client, clock, r) IN
        /\ client' = e.client
        /\ exc' = e.exc
        /\ pc' = IF e.exc = "None" THEN "loop" ELSE "startup_failed"
    /\ UNCHANGED <<config, last_state, flags, sched, clock, now, online,
                   ping_ok, dev, prev_state, alert_failed, detect, effects,
                   failed, hist>>

\* What the probe step (lines 493-552) yields for one choice of the
\* environment: ping_once result p, confirmation rounds pings, cloud call a.
\* Fault seeded in the probe step: a single failed ping is taken as offline
\* without confirmation.
ProbeStep_SingleSample(c, t, host, last, p, pings, a) ==
    IF host # "None" /\ p = "True"
    THEN [client |-> c, exc |-> "None", value |-> "True", rounds |-> 0,
          replied |-> FALSE, lookup |-> "none"]
    ELSE IF host # "None" /\ p = "False"
    THEN [client |-> c, exc |-> "None", value |-> "False", rounds |-> 0,
          replied |-> FALSE, lookup |-> "none"]
    ELSE LET g == get_device_online(c, t, a) IN
         [client |-> g.client, exc |-> g.exc, value |-> g.value,
          rounds |-> 0, replied |-> FALSE, lookup |-> LookupResult(g)]

\* Fault seeded in the probe step: no confirmation while already Offline.
ProbeStep_SkipWhenOffline(c, t, host, last, p, pings, a) ==
    IF host # "None" /\ p = "True"
    THEN [client |-> c, exc |-> "None", value |-> "True", rounds |-> 0,
          replied |-> FALSE, lookup |-> "none"]
    ELSE IF host # "None" /\ p = "False"
    THEN IF last = "False"
         THEN [client |-> c, exc |-> "None", value |-> "False", rounds |-> 0,
               replied |-> FALSE, lookup |-> "none"]
         ELSE confirm_offline_status(c, t, host, last, pings, a)
    ELSE LET g == get_device_online(c, t, a) IN
         [client |-> g.client, exc |-> g.exc, value |-> g.value,
          rounds |-> 0, replied |-> FALSE, lookup |-> LookupResult(g)]

\* Fault seeded in the primary detection: a ping that could not be run
\* counts as a failed ping and is reported offline without asking the cloud.
ProbeStep_IndeterminateIsOffline(c, t, host, last, p, pings, a) ==
    IF host # "None" /\ p = "True"
    THEN [client |-> c, exc |-> "None", value |-> "True", rounds |-> 0,
          replied |-> FALSE, lookup |-> "none"]
    ELSE IF host # "None" /\ p = "False"
    THEN confirm_offline_status(c, t, host, last, pings, a)
    ELSE IF host # "None"
    THEN [client |-> c, exc |-> "None", value |-> "False", rounds |-> 0,
          replied |-> FALSE, lookup |-> "none"]
    ELSE LET g == get_device_online(c, t, a) IN
         [client |-> g.client, exc |-> g.exc, value |-> g.value,
          rounds |-> 0, replied |-> FALSE, lookup |-> LookupResult(g)]

\* Fault seeded in the primary detection: an exception of the cloud lookup
\* is swallowed and the device is reported offline.
ProbeStep_LookupErrorIsOffline(c, t, host, last, p, pings, a) ==
    IF host # "None" /\ p = "True"
    THEN [client |-> c, exc |-> "None", value |-> "True", rounds |-> 0,
          replied |-> FALSE, lookup |-> "none"]
    ELSE IF host # "None" /\ p = "False"
    THEN confirm_offline_status(c, t, host, last, pings, a)
    ELSE LET g == get_device_online(c, t, a) IN
         [client |-> g.client, exc |-> "None",
          value |-> IF g.exc = "None" THEN g.value ELSE "False",
          rounds |-> 0, replied |-> FALSE, lookup |-> LookupResult(g)]

ProbeStep(c, t, host, last, p, pings, a) ==
    IF host # "None" /\ p = "True"
    THEN [client |-> c, exc |-> "None", value |-> "True", rounds |-> 0,
          replied |-> FALSE, lookup |-> "none"]
    ELSE IF host # "None" /\ p = "False"
    THEN confirm_offline_status(c, t, host, last, pings, a)
    ELSE LET g == get_device_online(c, t, a) IN
         [client |-> g.client, exc |-> g.exc, value |-> g.value,
          rounds |-> 0, replied |-> FALSE, lookup |-> LookupResult(g)]

\* main, lines 488-552: top of a cycle and primary detection.
Probe ==
    /\ pc = "loop"
    /\ \E p \in (IF PING_TARGET_HOST = "None" THEN {"None"} ELSE Tri) :
       \E pings \in (IF PING_TARGET_HOST # "None" /\ p = "False"
                     THEN PingRounds ELSE {NoPings}),
          a \in StatusCallsFor(client, clock) :
        LET s == ProbeStep(client, clock, PING_TARGET_HOST, last_state,
                           p, pings, a) IN
        /\ ping_ok' = p
        /\ client' = s.client
        /\ online' = s.value
        /\ confirm_rounds' = s.rounds
        /\ confirm_replied' = s.replied
        /\ last_lookup' = s.lookup
        /\ exc' = s.exc
        /\ pc' = IF s.exc = "None" THEN "retry" ELSE "except"
    /\ UNCHANGED <<config, last_state, flags, sched, clock, now, dev,
                   prev_state, alert_failed, safety, effects, failed, hist>>

\* main, lines 557-560: a delayed re-confirmation is pending and due.
RetryDue(retry, t) == retry # <<>> /\ t >= retry[1]

\* Fault seeded in the retry block: the schedule is set again whatever the
\* re-confirmation reported.
RetryAfter_AlwaysReschedule(value, t) == <<t + API_RETRY_DELAY>>

\* main, lines 582-584 and 574: the schedule after a re-confirmation.
RetryAfter(value, t) ==
    IF ~Truthy(value) THEN <<t + API_RETRY_DELAY>> ELSE <<>>

\* main, lines 557-589: delayed retry after offline confirmation.
Retry ==
    /\ pc = "retry"
    /\ IF RetryDue(last_api_retry_time, now)
       THEN \E pings \in PingRounds, a \in StatusCallsFor(client, clock) :
            LET r == confirm_offline_status(client, clock, PING_TARGET_HOST,
                                            last_state, pings, a) IN
            /\ client' = r.client
            /\ confirm_rounds' = confirm_rounds + r.rounds
            /\ confirm_replied' = (confirm_replied \/ r.replied)
            /\ last_lookup' = IF r.lookup = "none" THEN last_lookup
                              ELSE r.lookup
            /\ exc' = r.exc
            /\ IF r.exc = "None"
               THEN /\ online' = r.value
                    /\ last_api_retry_time' = RetryAfter(r.value, now)
                    /\ pc' = "safety"
               ELSE /\ UNCHANGED <<online, last_api_retry_time>>
                    /\ pc' = "except"
       ELSE /\ pc' = "safety"
            /\ UNCHANGED <<client, confirm_rounds, confirm_replied,
                           last_lookup, exc, online, last_api_retry_time>>
    /\ UNCHANGED <<config, last_state, flags, last_api_check, clock, now,
                   ping_ok, dev, prev_state, alert_failed, safety, effects,
                   failed, hist>>

\* Fault seeded in the safety-net condition: the input is not looked at.
SafetyDue_AnyInput(value, t, last_check) ==
    (t - last_check) > API_OFFLINE_INTERVAL

\* main, line 592: the safety-net lookup is due.
SafetyDue(value, t, last_check) ==
    ~Truthy(value) /\ (t - last_check) > API_OFFLINE_INTERVAL

\* main, lines 592-628: API safety check when offline.
Safety ==
    /\ pc = "safety"
    /\ IF SafetyDue(online, now, last_api_check)
       THEN \E a \in StatusCallsFor(client, clock) :
            LET g == get_device_online(client, clock, a) IN
            /\ client' = g.client
            /\ last_lookup' = LookupResult(g)
            /\ safety' = IF g.exc = "None" THEN "answered" ELSE "failed"
            /\ IF g.exc = "None"
               THEN /\ online' = g.value
                    /\ last_api_check' = now
                    /\ last_api_retry_time' =
                         IF ~Truthy(g.value) THEN <<now + API_RETRY_DELAY>>
                         ELSE last_api_retry_time
               ELSE /\ online' = last_state
                    /\ last_api_retry_time' = <<now + API_RETRY_DELAY>>
                    /\ UNCHANGED last_api_check
       ELSE UNCHANGED <<client, online, sched, last_lookup, safety>>
    /\ pc' = "decide"
    /\ UNCHANGED <<config, last_state, flags, clock, now, ping_ok, exc, dev,
                   prev_state, alert_failed, confirm_rounds, confirm_replied,
                   effects, failed, hist>>

\* main, lines 634-635: the guard flags a seeded verdict starts with.
SeedOutageHandled(value) == PyNot(value)

\* Fault seeded in the seeding of restore_handled: the flag is negated.
SeedRestoreHandled_Negated(value) == PyNot(value)

SeedRestoreHandled(value) == value

\* main, lines 632-637: the first verdict seeds last_state.
Seed ==
    /\ pc = "decide"
    /\ last_state = "None"
    /\ last_state' = online
    /\ outage_handled' = SeedOutageHandled(online)
    /\ restore_handled' = SeedRestoreHandled(online)
    /\ seed_state' = online
    /\ pc' = "sleep"
    /\ UNCHANGED <<config, client, sched, clock, now, online, ping_ok, exc,
                   dev, prev_state, alert_failed, detect, effects, failed,
                   actuations, input_differed, acted>>

\* main, lines 640-648: the flags after the comparison with last_state.
FlagsAfterCompare(value, last, oh, rh) ==
    IF value # last
    THEN IF Truthy(value)
         THEN [outage_handled |-> "True", restore_handled |-> "False"]
         ELSE [outage_handled |-> "False", restore_handled |-> "True"]
    ELSE [outage_handled |-> oh, restore_handled |-> rh]

\* main, lines 653 and 666: which actuation branch is taken.
Branch(value, f) ==
    IF ~Truthy(value) /\ ~Truthy(f.outage_handled) THEN "outage"
    ELSE IF Truthy(value) /\ ~Truthy(f.restore_handled) THEN "restore"
    ELSE "sleep"

\* main, lines 640-653 and 666: state change detection.
Compare ==
    /\ pc = "decide"
    /\ last_state # "None"
    /\ LET f == FlagsAfterCompare(online, last_state, outage_handled,
                                  restore_handled) IN
        /\ outage_handled' = f.outage_handled
        /\ restore_handled' = f.restore_handled
        /\ pc' = Branch(online, f)
    /\ last_state' = online
    /\ actuations' = IF online # last_state THEN 0 ELSE actuations
    /\ input_differed' = (input_differed \/ online # seed_state)
    /\ UNCHANGED <<config, client, sched, clock, now, online, ping_ok, exc,
                   dev, prev_state, alert_failed, detect, effects, failed,
                   seed_state, acted>>

\* main, line 654: the outage alert; telegram_main swallows its errors.
OutageAlert ==
    /\ pc = "outage"
    /\ \E main_post \in PostOutcomes, debug_post \in PostOutcomes :
        LET m == telegram_main(main_post, debug_post) IN
        /\ alert_failed' = m.failed
        /\ exc' = m.exc
        /\ pc' = IF m.exc = "None" THEN "outage_loop" ELSE "except"
    /\ effects' = Append(effects, Alert("outage"))
    /\ actuations' = Cap(actuations + 1)
    /\ acted' = TRUE
    /\ dev' = 1
    /\ UNCHANGED <<failed, config, client, last_state,
                   flags, sched, clock, now, online, ping_ok, prev_state,
                   detect, seed_state, input_differed>>

\* main, line 659: the exceptions the outage loop swallows per device.
OutageCaught == {"RuntimeError"}

\* main, lines 656-660: one iteration of the outage loop.
OutageSwitch ==
    /\ pc = "outage_loop"
    /\ dev <= NumDevices
    /\ \E a \in SwitchCallsFor(client, clock) :
        LET s == set_switch(client, clock, a) IN
        /\ failed' = Raised(failed, s.exc)
        /\ client' = s.client
        /\ effects' = Append(effects,
                             Switch(DISABLE_DEVICE_IDS[dev], "False"))
        /\ IF s.exc = "None" \/ s.exc \in OutageCaught
           THEN /\ dev' = dev + 1
                /\ UNCHANGED <<pc, exc>>
           ELSE /\ exc' = s.exc
                /\ pc' = "except"
                /\ UNCHANGED dev
    /\ UNCHANGED <<config, last_state, flags, sched, clock, now, online,
                   ping_ok, prev_state, alert_failed, detect, hist>>

\* main, lines 662-663: the outage is handled.
OutageDone ==
    /\ pc = "outage_loop"
    /\ dev > NumDevices
    /\ outage_handled' = "True"
    /\ restore_handled' = "False"
    /\ pc' = "sleep"
    /\ UNCHANGED <<config, client, last_state, sched, clock, now, online,
                   ping_ok, exc, dev, prev_state, alert_failed, detect,
                   effects, failed, hist>>

\* main, line 667: the restore alert.
RestoreAlert ==
    /\ pc = "restore"
    /\ \E main_post \in PostOutcomes, debug_post \in PostOutcomes :
        LET m == telegram_main(main_post, debug_post) IN
        /\ alert_failed' = m.failed
        /\ exc' = m.exc
        /\ pc' = IF m.exc = "None" THEN "restore_loop" ELSE "except"
    /\ effects' = Append(effects, Alert("restore"))
    /\ actuations' = Cap(actuations + 1)
    /\ acted' = TRUE
    /\ dev' = 1
    /\ UNCHANGED <<failed, config, client, last_state,
                   flags, sched, clock, now, online, ping_ok, prev_state,
                   detect, seed_state, input_differed>>

\* main, lines 672 and 684: the exceptions the restore steps swallow.
RestoreCaught == {"RuntimeError", "RequestException"}

\* main, lines 669-680: one iteration of the restore loop, with its pause.
RestoreSwitch ==
    /\ pc = "restore_loop"
    /\ dev <= NumDevices
    /\ \E a \in SwitchCallsFor(client, clock) :
        LET s == set_switch(client, clock, a) IN
        /\ failed' = Raised(failed, s.exc)
        /\ client' = s.client
        /\ IF s.exc = "None" \/ s.exc \in RestoreCaught
           THEN /\ dev' = dev + 1
                /\ effects' = effects \o
                       <<Switch(DISABLE_DEVICE_IDS[dev], "True"),
                         Pause(DISABLE_DEVICE_IDS[dev])>>
                /\ UNCHANGED <<pc, exc>>
           ELSE /\ exc' = s.exc
                /\ pc' = "except"
                /\ effects' = Append(effects,
                       Switch(DISABLE_DEVICE_IDS[dev], "True"))
                /\ UNCHANGED dev
    /\ UNCHANGED <<config, last_state, flags, sched, clock, now, online,
                   ping_ok, prev_state, alert_failed, detect, hist>>

\* main, lines 682-693: the primary device is enabled last.
RestorePrimary ==
    /\ pc = "restore_loop"
    /\ dev > NumDevices
    /\ \E a \in SwitchCallsFor(client, clock) :
        LET s == set_switch(client, clock, a) IN
        /\ failed' = Raised(failed, s.exc)
        /\ client' = s.client
        /\ effects' = Append(effects, Switch(TUYA_DEVICE_ID, "True"))
        /\ IF s.exc = "None" \/ s.exc \in RestoreCaught
           THEN /\ restore_handled' = "True"
                /\ outage_handled' = "False"
                /\ pc' = "sleep"
                /\ UNCHANGED exc
           ELSE /\ exc' = s.exc
                /\ pc' = "except"
                /\ UNCHANGED flags
    /\ UNCHANGED <<config, last_state, sched, clock, now, online, ping_ok,
                   dev, prev_state, alert_failed, detect, hist>>

\* The locals of a cycle (online, ping_ok, the loop index) and the history
\* of the cycle are dead once the cycle is over: the next cycle starts
\* from their initial values.
NextCycle(d) ==
    /\ clock + d <= MaxTime
    /\ clock' = clock + d
    /\ now' = clock + d
    /\ online' = "None"
    /\ ping_ok' = "None"
    /\ dev' = 1
    /\ exc' = "None"
    /\ prev_state' = last_state
    /\ confirm_rounds' = 0
    /\ confirm_replied' = FALSE
    /\ last_lookup' = "none"
    /\ safety' = "skipped"
    /\ effects' = <<>>
    /\ failed' = {}
    /\ alert_failed' = FALSE
    /\ pc' = "loop"

\* main, lines 636 and 695: time.sleep(PING_INTERVAL), then the next cycle.
Sleep ==
    /\ pc = "sleep"
    /\ \E d \in Elapsed : NextCycle(d)
    /\ UNCHANGED <<config, client, last_state, flags, sched, hist>>

\* main, lines 697-700: the loop-level handler reports and sleeps.
Handler ==
    /\ pc = "except"
    /\ exc \in LoopCaught
    /\ \E d \in Elapsed : NextCycle(d)
    /\ UNCHANGED <<config, client, last_state, flags, sched, hist>>

\* main, line 697: an exception of another class leaves main().
Crash ==
    /\ pc = "except"
    /\ exc \notin LoopCaught
    /\ pc' = "crashed"
    /\ UNCHANGED <<config, client, last_state, flags, sched, clock, now,
                   online, ping_ok, exc, dev, prev_state, alert_failed, detect,
                   effects, failed, hist>>

Next ==
    \/ Startup
    \/ Probe
    \/ Retry
    \/ Safety
    \/ Seed
    \/ Compare
    \/ OutageAlert
    \/ OutageSwitch
    \/ OutageDone
    \/ RestoreAlert
    \/ RestoreSwitch
    \/ RestorePrimary
    \/ Sleep
    \/ Handler
    \/ Crash

Spec == Init /\ [][Next]_vars

\* ------------------------------------------------ calls studied on their own
\* The variables of the loop, which stay as Fresh left them.
idle == <<PING_TARGET_HOST, client, last_state, flags, sched, clock, now,
          online, ping_ok, exc, dev, prev_state, detect, effects, failed,
          hist, alert_failed>>

\* A client before its first refresh, and one holding a token that is
\* valid at time 0.
UnitClients ==
    {[token |-> FALSE, token_expire |-> 0],
     [token |-> TRUE, token_expire |-> 7200 - TOKEN_BUFFER]}

\* TuyaClient.set_switch, lines 410-468, called once on every response.
InitSwitch ==
    /\ Fresh
    /\ PING_TARGET_HOST = "host"
    /\ pc = "call"
    /\ \E c \in UnitClients :
         call \in [op : {"set_switch"}, client : {c}, t : {0},
                   a : [refresh : RefreshFor(c, 0), http : SwitchResponses]]
    /\ result = NoCall

ApplySetSwitch ==
    /\ pc = "call"
    /\ call.op = "set_switch"
    /\ result' = set_switch(call.client, call.t, call.a)
    /\ pc' = "returned"
    /\ UNCHANGED <<idle, call>>

NextSwitch == ApplySetSwitch

SpecSwitch == InitSwitch /\ [][NextSwitch]_vars

\* confirm_offline_status, lines 214-272, called once on every outcome of
\* its ping_confirm rounds and of its cloud lookup.
InitConfirm ==
    /\ Fresh
    /\ PING_TARGET_HOST = "host"
    /\ pc = "call"
    /\ \E c \in UnitClients :
         call \in [op : {"confirm_offline_status"}, client : {c}, t : {0},
                   host : {"host", "None"}, last_online : Tri,
                   pings : PingRounds, a : StatusCallsFor(c, 0)]
    /\ result = NoCall

ApplyConfirm ==
    /\ pc = "call"
    /\ call.op = "confirm_offline_status"
    /\ result' = confirm_offline_status(call.client, call.t, call.host,
                                        call.last_online, call.pings, call.a)
    /\ pc' = "returned"
    /\ UNCHANGED <<idle, call>>

NextConfirm == ApplyConfirm

SpecConfirm == InitConfirm /\ [][NextConfirm]_vars

\* TuyaClient.ensure_token, lines 351-370, called by the cloud calls of one
\* monitoring cycle.  The cycle starts at time 0; between two calls the
\* work of the cycle (a ping round, an HTTP call, time.sleep(15)) may take
\* time.  call is the client and the clock, result the record of the cycle.
MaxCalls == 4
MaxCycleTime == 45
WorkTime == {15}

\* expire_time values of the token endpoint, short ones included.
AnyTTLs == {60, 120, 150, 7200}
AnyRefreshOutcomes ==
    [kind : {"ok"}, ttl : AnyTTLs]
    \cup [kind : {"RuntimeError", "RequestException"}, ttl : {0}]

\* Acquisition times of a two-hour token held when the cycle starts:
\* run out, running out after 15 s, good for the whole cycle.
HeldSince == {0 - 7200, 0 - 7065, 0 - 200}

InitToken ==
    /\ Fresh
    /\ PING_TARGET_HOST = "host"
    /\ pc = "cycle"
    /\ \/ /\ call = [op |-> "ensure_token", t |-> 0, n |-> 0,
                      client |-> [token |-> FALSE, token_expire |-> 0]]
          /\ result = [refreshes |-> 0, attempts |-> 0, ttls |-> {},
                        held |-> <<>>, was_held |-> <<>>, at |-> 0,
                        refreshed |-> 0]
       \/ \E acq \in HeldSince :
          /\ call = [op |-> "ensure_token", t |-> 0, n |-> 0,
                      client |-> [token |-> TRUE,
                                  token_expire |-> acq + 7200 - TOKEN_BUFFER]]
          /\ result = [refreshes |-> 0, attempts |-> 0, ttls |-> {},
                        held |-> <<[acq |-> acq, ttl |-> 7200]>>,
                        was_held |-> <<>>, at |-> 0, refreshed |-> 0]

\* One cloud call of the cycle reaches ensure_token.
CallEnsureToken ==
    /\ pc = "cycle"
    /\ call.n < MaxCalls
    /\ \E r \in (IF TokenValid(call.client, call.t) THEN {NoRefresh}
                   ELSE AnyRefreshOutcomes) :
        LET e == ensure_token(call.client, call.t, r)
            got == e.refreshes = 1 /\ e.exc = "None" IN
        /\ call' = [call EXCEPT !.client = e.client, !.n = @ + 1]
        /\ result' =
             [refreshes |-> result.refreshes + (IF got THEN 1 ELSE 0),
              attempts |-> result.attempts + e.refreshes,
              ttls |-> IF got THEN result.ttls \cup {r.ttl} ELSE result.ttls,
              held |-> IF got THEN <<[acq |-> call.t, ttl |-> r.ttl]>>
                       ELSE result.held,
              was_held |-> result.held,
              at |-> call.t,
              refreshed |-> e.refreshes]
    /\ UNCHANGED <<idle, pc>>

\* Time passes inside the cycle.
Work ==
    /\ pc = "cycle"
    /\ call.t < MaxCycleTime
    /\ \E d \in WorkTime : call' = [call EXCEPT !.t = @ + d]
    /\ UNCHANGED <<idle, pc, result>>

NextToken == CallEnsureToken \/ Work

SpecToken == InitToken /\ [][NextToken]_vars

\* ------------------------------------------------------------ properties
\* A cycle is over: main is about to sleep, or its handler is about to.
CycleOver == pc \in {"sleep", "except"}

\* The actuation of a complete outage / restore, in the order of the code.
OutageEffects ==
    <<Alert("outage")>>
    \o [i \in 1..NumDevices |-> Switch(DISABLE_DEVICE_IDS[i], "False")]

RestoreStep(i) ==
    IF i % 2 = 1 THEN Switch(DISABLE_DEVICE_IDS[(i + 1) \div 2], "True")
    ELSE Pause(DISABLE_DEVICE_IDS[i \div 2])

RestoreEffects ==
    <<Alert("restore")>>
    \o [i \in 1..(2 * NumDevices) |-> RestoreStep(i)]
    \o <<Switch(TUYA_DEVICE_ID, "True")>>

IsPrefix(s, t) == Len(s) <= Len(t) /\ s = SubSeq(t, 1, Len(s))

\* C1: each verdict transition causes exactly one Actuator invocation, and
\* later cycles that observe the same state cause no further one.
C1_OneActuationPerTransition ==
    /\ actuations <= 1
    /\ (pc = "sleep" /\ prev_state # "None" /\ last_state # prev_state)
           => actuations = 1

\* C2: the cycle that seeds the verdict sends no alert and no switch
\* command, and none is sent afterwards until a compared verdict input
\* differs from the seeded state.
C2_SeedIsSilent ==
    (seed_state # "None" /\ ~input_differed) => (~acted /\ effects = <<>>)

C2_Witness ==
    /\ seed_state = "False"
    /\ prev_state = "False"
    /\ ~input_differed
    /\ pc = "sleep"

\* C3: from Online, with the primary probe Unreachable, the verdict becomes
\* Offline in that cycle only after the confirmation sampler has run.
C3_NoSingleSampleFlap ==
    (prev_state = "True" /\ ping_ok = "False" /\ last_state = "False")
        => confirm_rounds >= 1

C3_Witness ==
    /\ prev_state = "True"
    /\ ping_ok = "False"
    /\ last_state = "False"
    /\ confirm_rounds = CONFIRM_ROUNDS
    /\ pc = "outage"

\* C4: with a liveness host configured and the primary probe Reachable, the
\* verdict input compared against the previous verdict is Online, whether
\* or not a delayed re-confirmation is pending or due.
C4_ReachableMeansOnline ==
    (PING_TARGET_HOST # "None" /\ ping_ok = "True" /\ pc = "decide")
        => online = "True"

\* C5 as stated: with the previous verdict Offline and the probe again
\* Unreachable, the confirmation sequence is not run in that cycle.
C5_NoReconfirmWhenOffline ==
    (pc = "retry" /\ prev_state = "False" /\ ping_ok = "False")
        => confirm_rounds = 0

\* C5 amended: the primary detection step runs the confirmation sequence
\* exactly when the probe reports Unreachable, whatever the previous
\* verdict, Offline included.
C5_ConfirmOnEveryUnreachable ==
    pc = "retry" => (confirm_rounds >= 1 <=> ping_ok = "False")

C5_Witness ==
    /\ pc = "retry"
    /\ prev_state = "False"
    /\ ping_ok = "False"
    /\ confirm_rounds = CONFIRM_ROUNDS

\* C6: on a transition to Offline set_switch(device, False) is attempted
\* for every device in order, and a failure on one device neither stops
\* the remaining attempts nor reaches the loop-level handler.
C6_OutageFailuresIsolated ==
    (CycleOver /\ effects # <<>> /\ effects[1] = Alert("outage"))
        => (pc = "sleep" /\ effects = OutageEffects)

\* C7: every error raised inside a cycle is caught at the loop boundary and
\* the loop never terminates.
C7_LoopNeverTerminates ==
    /\ pc = "except" => exc \in LoopCaught
    /\ pc # "crashed"

\* C8: when the safety-net lookup fails, the verdict input becomes the
\* previous verdict, a re-confirmation is scheduled at now + API_RETRY_DELAY,
\* and the cycle changes no verdict and issues no alert or switch command.
C8_SafetyFailureHolds ==
    /\ (pc = "decide" /\ safety = "failed")
           => /\ online = last_state
              /\ last_api_retry_time = <<now + API_RETRY_DELAY>>
    /\ safety = "failed" => (last_state = prev_state /\ effects = <<>>)

\* Every confirmation sample of the cycle failed, after a failed probe.
AllSamplesFailed ==
    /\ ping_ok = "False"
    /\ confirm_rounds >= CONFIRM_ROUNDS
    /\ ~confirm_replied

\* C9 as stated: from Online, a cycle whose probe is Unreachable and whose
\* confirmation samples all fail ends Offline with one outage alert and one
\* set_switch(device, False) per device.
C9_ScenarioB ==
    (CycleOver /\ prev_state = "True" /\ AllSamplesFailed)
        => (last_state = "False" /\ effects = OutageEffects)

\* C9 amended: such a cycle ends Offline exactly when its last cloud status
\* lookup reported the device offline; it then sends one outage alert and
\* issues set_switch(device, False) once per device in configured order, up
\* to the first command that raises a transport error; otherwise the
\* verdict stays Online and nothing is sent.
C9_ScenarioBWithCloud ==
    (CycleOver /\ prev_state = "True" /\ AllSamplesFailed)
        => /\ last_state = "False" <=> last_lookup = "False"
           /\ last_state = "False"
                 => /\ IsPrefix(effects, OutageEffects)
                    /\ Len(effects) >= 2
                    /\ Len(effects) < Len(OutageEffects)
                          => (pc = "except" /\ exc = "RequestException")
           /\ last_state = "True" => effects = <<>>

C9_Witness ==
    /\ pc = "sleep"
    /\ prev_state = "True"
    /\ AllSamplesFailed
    /\ last_state = "False"
    /\ effects = OutageEffects

\* C10: from Offline, a cycle whose primary probe is Reachable ends Online
\* after one restore alert, set_switch(device, True) with a pause for each
\* device in order, and set_switch(TUYA_DEVICE_ID, True) last, whatever
\* fails on the way.
C10_ScenarioD ==
    (CycleOver /\ prev_state = "False" /\ ping_ok = "True")
        => (pc = "sleep" /\ last_state = "True" /\ effects = RestoreEffects)

\* The POST of the studied set_switch call was answered with a non-success
\* envelope: ensure_token did not raise and the transport did not fail.
GotNonSuccessEnvelope ==
    /\ pc = "returned"
    /\ call.op = "set_switch"
    /\ (TokenValid(call.client, call.t) \/ call.a.refresh.kind = "ok")
    /\ call.a.http.kind = "json"
    /\ ~call.a.http.success

\* The envelope text contains "already" or "offline" in any letter case.
MentionsNoOp ==
    \E i \in 1..Len(call.a.http.text) :
        call.a.http.text[i] \in {"already", "ALREADY", "device is offline",
                                 "Offline"}

\* C11: on a non-success envelope whose text contains "already" or
\* "offline", set_switch returns normally and sends no debug notification;
\* on any other non-success envelope it sends one and raises.
C11_BenignNoOp ==
    GotNonSuccessEnvelope =>
        IF MentionsNoOp
        THEN result.exc = "None" /\ ~result.notified
        ELSE result.exc = "RuntimeError" /\ result.notified

C11_Witness ==
    /\ GotNonSuccessEnvelope
    /\ call.a.http.text = <<"permission deny", "ALREADY">>
    /\ result.exc = "None"
    /\ ~result.notified

\* C12 as stated: for every TTL and every number of cloud calls, the
\* credential is refreshed at most once within one cycle.
C12_AtMostOneRefresh ==
    (pc = "cycle" /\ call.op = "ensure_token") => result.refreshes <= 1

\* The last call of the studied cycle found a token that was held and
\* not yet within 120 s of the end of its TTL.
HeldAndFresh ==
    /\ result.was_held # <<>>
    /\ result.at < result.was_held[1].acq + result.was_held[1].ttl - 120

\* C12, amended: a call refreshes exactly when no token is held or the
\* time is no longer before acquisition + TTL - 120; a cycle in which every
\* granted TTL exceeds 120 s plus the duration of the cycle obtains at most
\* one token.
C12_RefreshOnlyWhenStale ==
    (pc = "cycle" /\ call.op = "ensure_token" /\ call.n > 0) =>
        /\ HeldAndFresh <=> result.refreshed = 0
        /\ (\A ttl \in result.ttls : ttl > 120 + MaxCycleTime)
               => result.refreshes <= 1

C12_Witness ==
    /\ pc = "cycle"
    /\ call.op = "ensure_token"
    /\ call.n = MaxCalls
    /\ call.t >= MaxCycleTime
    /\ result.refreshes = 1
    /\ result.ttls = {7200}
    /\ result.attempts = 2
    /\ HeldAndFresh

\* C13: once a verdict is recorded, at every cycle boundary (a cycle that
\* ends in the loop-level handler included) outage_handled is true exactly
\* when the recorded verdict is Offline and restore_handled exactly when
\* it is Online, so exactly one of them is true and they change only
\* together with last_state.
C13_FlagsFollowVerdict ==
    (CycleOver /\ last_state # "None") =>
        /\ outage_handled = "True" <=> last_state = "False"
        /\ restore_handled = "True" <=> last_state = "True"

\* C14 as stated: the safety-net lookup is performed only on an Offline
\* input and never when a cloud status lookup of any kind was answered
\* within the interval, the lookups of the confirmation fallback and of
\* the ping-unavailable fallback of the same cycle included.
C14_SafetyAfterAnyCloudCheck ==
    [][(pc = "safety" /\ safety' # "skipped")
          => (online = "False" /\ last_lookup \notin PyBool)]_vars

\* C14, amended: the safety-net lookup is performed, once, exactly in the
\* cycles that reach it with an input that is not Online more than
\* API_OFFLINE_INTERVAL seconds after the last successful safety-net
\* lookup (process start when there was none); only a successful
\* safety-net lookup moves that time.
C14_SafetySinceLastSafety ==
    [][/\ pc = "safety" =>
            /\ safety = "skipped"
            /\ safety' # "skipped" <=>
                  (online # "True"
                   /\ now - last_api_check > API_OFFLINE_INTERVAL)
       /\ last_api_check' # last_api_check =>
            (pc = "safety" /\ safety' = "answered" /\ last_api_check' = now)
      ]_vars

C14_Witness ==
    /\ PING_TARGET_HOST = "None"
    /\ pc = "decide"
    /\ last_lookup = "False"
    /\ safety = "answered"
    /\ last_api_check = now

\* C15: a safety-net lookup that reports offline schedules a
\* re-confirmation at now + API_RETRY_DELAY; a cycle that reaches the retry
\* step at or past the due time runs the re-confirmation once, to its end,
\* and the re-confirmation reschedules itself at now + API_RETRY_DELAY when
\* it still reports offline.
C15_RetryRunsWhenDue ==
    [][/\ (pc = "safety" /\ safety' = "answered" /\ online' = "False")
            => last_api_retry_time' = <<now + API_RETRY_DELAY>>
       /\ (pc = "retry" /\ RetryDue(last_api_retry_time, now))
            => /\ pc' = "safety"
               /\ confirm_rounds' > confirm_rounds
               /\ online' = "False"
                    => last_api_retry_time' = <<now + API_RETRY_DELAY>>
      ]_vars

\* C16 as stated: after any cycle that ends with the verdict Online no
\* retry is pending.
C16_NoRetryPendingWhenOnline ==
    (CycleOver /\ last_state = "True") => last_api_retry_time = <<>>

\* C16, amended: a pending retry schedule is cleared only by a due
\* re-confirmation that runs to its end and reports Online (one that
\* reports anything else sets it to now + API_RETRY_DELAY); no other step
\* clears it, whatever the verdict.
C16_ClearedOnlyWhenConsumed ==
    [][/\ (last_api_retry_time # <<>> /\ last_api_retry_time' = <<>>)
            => /\ pc = "retry"
               /\ RetryDue(last_api_retry_time, now)
               /\ pc' = "safety"
               /\ online' = "True"
       /\ (pc = "retry" /\ RetryDue(last_api_retry_time, now)
              /\ pc' = "safety")
            => last_api_retry_time' =
                 IF online' = "True" THEN <<>>
                 ELSE <<now + API_RETRY_DELAY>>
      ]_vars

C16_Witness ==
    /\ pc = "sleep"
    /\ prev_state = "False"
    /\ last_state = "True"
    /\ ping_ok = "True"
    /\ confirm_rounds = 0
    /\ safety = "skipped"
    /\ last_api_retry_time # <<>>

\* The primary probe of this cycle was Indeterminate: a liveness host is
\* configured and ping could not be run.
ProbeIndeterminate == PING_TARGET_HOST # "None" /\ ping_ok = "None"

\* C17: when the primary probe is Indeterminate the primary detection
\* takes the input from a cloud status lookup, without running the
\* confirmation sampler; the input compared is then Offline only if the
\* cycle's last cloud lookup said offline, or failed while the previous
\* verdict was Offline; if the lookup of the primary detection fails, the
\* cycle ends in the handler with no verdict change and no actuation.
C17_IndeterminateAsksCloud ==
    /\ (ProbeIndeterminate /\ pc = "retry")
          => (online \in PyBool /\ online = last_lookup
              /\ confirm_rounds = 0)
    /\ (ProbeIndeterminate /\ pc = "decide" /\ online = "False")
          => \/ last_lookup = "False"
             \/ last_lookup = "error" /\ last_state = "False"
    /\ (ProbeIndeterminate /\ pc = "except" /\ last_lookup = "error"
          /\ confirm_rounds = 0 /\ safety = "skipped")
          => /\ exc \in LoopCaught
             /\ last_state = prev_state
             /\ effects = <<>>
             /\ ~alert_failed

C17_Witness ==
    /\ ProbeIndeterminate
    /\ pc = "outage"
    /\ prev_state = "True"
    /\ last_state = "False"
    /\ last_lookup = "False"
    /\ confirm_rounds = 0
    /\ safety = "skipped"

\* C18: with no liveness host configured the confirmation sampler is
\* invoked in no cycle, a cycle in which a delayed re-confirmation is due
\* included: every input comes from a cloud status lookup.
C18_ApiOnlyNeverPings ==
    PING_TARGET_HOST = "None" =>
        /\ confirm_rounds = 0
        /\ pc = "decide" => last_lookup \in PyBool \/ online = last_state

\* The studied call of confirm_offline_status has ended.
ConfirmEnded == pc = "returned" /\ call.op = "confirm_offline_status"

\* Some round of the studied call got a reply.
SomeReply == \E i \in 1..3 : call.pings[i] = "True"

\* The cloud status lookup of the studied call gets an answer: its token
\* is valid or refreshed, and the request returns the online field.
CloudAnswers ==
    /\ call.client.token \/ call.a.refresh.kind = "ok"
    /\ call.a.http \in PyBool

\* C19: confirm_offline_status runs at most 3 rounds and stops at the
\* first round that gets a reply, returning Online without consulting the
\* cloud; only after 3 rounds without a reply does it make one cloud
\* lookup, whose answer it returns, or the caller's previous verdict when
\* the lookup fails.
C19_ConfirmRounds ==
    ConfirmEnded =>
        /\ result.rounds \in 1..3
        /\ result.lookup # "none" =>
              (result.rounds = 3 /\ ~SomeReply /\ call.host # "None")
        /\ (call.host # "None" /\ SomeReply) =>
              /\ result.exc = "None"
              /\ result.value = "True"
              /\ call.pings[result.rounds] = "True"
              /\ \A j \in 1..(result.rounds - 1) : call.pings[j] # "True"
              /\ result.lookup = "none"
              /\ result.client = call.client
        /\ (call.host # "None" /\ ~SomeReply) =>
              /\ result.exc = "None"
              /\ result.rounds = 3
              /\ result.lookup # "none"
              /\ result.value = IF CloudAnswers THEN call.a.http
                                ELSE call.last_online

C19_Witness ==
    /\ ConfirmEnded
    /\ call.host = "host"
    /\ call.pings = <<"None", "False", "True">>
    /\ result.rounds = 3
    /\ result.value = "True"
    /\ result.lookup = "none"

\* The cycle sent the outage alert and a post of it failed.
OutageAlertFailed ==
    /\ alert_failed
    /\ effects # <<>>
    /\ effects[1] = Alert("outage")

\* C20: on a transition to Offline the outage alert comes before every
\* set_switch(device, False); an alert whose delivery failed raises nothing
\* into the loop, the switch commands are attempted after it, and the
\* guard flag is set when the cycle ends.
C20_AlertFirstAndBestEffort ==
    /\ \A i \in 1..Len(effects) :
          (effects[i].op = "set_switch" /\ effects[i].value = "False")
              => (i > 1 /\ effects[1] = Alert("outage"))
    /\ (OutageAlertFailed /\ Len(effects) = 1)
          => (pc = "outage_loop" /\ dev = 1 /\ exc = "None")
    /\ (OutageAlertFailed /\ CycleOver)
          => /\ effects[2] = Switch(DISABLE_DEVICE_IDS[1], "False")
             /\ "RequestException" \notin failed
                  => /\ pc = "sleep"
                     /\ effects = OutageEffects
                     /\ outage_handled = "True"

C20_Witness ==
    /\ OutageAlertFailed
    /\ pc = "sleep"
    /\ prev_state = "True"
    /\ last_state = "False"
    /\ effects = OutageEffects
    /\ outage_handled = "True"

\* C21: a cycle that seeds the verdict as Offline, or changes it from
\* Online to Offline, rests on a cloud answer: the last cloud status lookup
\* of that cycle succeeded and reported offline.  When the cycle's last
\* lookup failed, or the cycle made none, an Online verdict is still Online
\* at the end of the cycle, whatever the probe and the confirmation
\* samples returned.
C21_OfflineNeedsCloudAnswer ==
    /\ (prev_state # "False" /\ last_state = "False")
          => last_lookup = "False"
    /\ (prev_state = "True" /\ last_lookup \notin PyBool)
          => last_state = "True"

C21_Witness ==
    /\ prev_state = "True"
    /\ last_state = "False"
    /\ ping_ok = "False"
    /\ confirm_rounds = CONFIRM_ROUNDS
    /\ safety = "answered"
    /\ last_lookup = "False"
    /\ pc = "outage_loop"

\* C22: once last_state has been seeded to Online or Offline it is never
\* None again; while it is None, a cycle whose input is None (the cloud
\* lookup after the confirmation rounds failed, so the held verdict None
\* came back) leaves it None and sends no alert and no switch command.
C22_NeverUnknownAgain ==
    /\ seed_state # "None" => last_state # "None"
    /\ (prev_state # "None" /\ pc \in {"safety", "decide"})
          => online # "None"
    /\ (prev_state = "None" /\ online = "None" /\ pc = "sleep")
          => (last_state = "None" /\ effects = <<>> /\ ~acted)

C22_Witness ==
    /\ prev_state = "None"
    /\ online = "None"
    /\ ping_ok = "False"
    /\ confirm_rounds = CONFIRM_ROUNDS
    /\ last_lookup = "error"
    /\ pc = "sleep"
    /\ last_state = "None"

\* The variables C23 names.
verdict_state == <<last_state, outage_handled, restore_handled,
                   last_api_check, last_api_retry_time>>

\* C23: when the cloud lookup that supplies the input fails (ping
\* unavailable, or ping disabled), the cycle goes to the loop-level
\* handler, and neither that step nor the handler changes last_state,
\* outage_handled, restore_handled, last_api_check or
\* last_api_retry_time; no alert and no switch command is sent.
C23_FailedLookupCycleIsInert ==
    [][/\ (pc = "loop" /\ ping_ok' = "None" /\ last_lookup' = "error")
            => /\ pc' = "except"
               /\ exc' \in {"RequestException", "RuntimeError"}
               /\ effects' = <<>>
               /\ verdict_state' = verdict_state
       /\ (pc = "except" /\ ping_ok = "None" /\ last_lookup = "error"
              /\ confirm_rounds = 0 /\ safety = "skipped")
            => /\ pc' = "loop"
               /\ effects = <<>>
               /\ ~alert_failed
               /\ verdict_state' = verdict_state
      ]_vars

C23_Witness ==
    /\ PING_TARGET_HOST = "host"
    /\ pc = "except"
    /\ ping_ok = "None"
    /\ last_lookup = "error"
    /\ exc = "RuntimeError"
    /\ last_state = "False"
    /\ outage_handled = "True"
    /\ last_api_retry_time # <<>>
    /\ effects = <<>>
====
